---- MODULE Spec2Model ----
(***************************************************************************)
(* Model of the containers of the repository: the complete MinHeap, the    *)
(* array-backed Queue and the LinkedListQueue (src/unnamed/part_000).      *)
(*                                                                         *)
(* JavaScript values are records [kind, val]: a number carries its value,  *)
(* null and undefined carry 0.  A JavaScript array is a TLA+ sequence; the *)
(* JavaScript index i is the TLA+ index i + 1 (see At).                    *)
(***************************************************************************)
EXTENDS Integers, Sequences, FiniteSets, Bags, TLC

\* ---------------------------------------------------------------- bounds
MaxAbs == 1          \* inserted numbers range over -MaxAbs..MaxAbs
MaxInserts == 4      \* insert calls per run
MaxEnqueues == 4     \* enqueue calls per queue per run
MaxItem == 2         \* queue items range over 1..MaxItem

\* ------------------------------------------------------- JavaScript values
Num(n) == [kind |-> "number", val |-> n]
NULL == [kind |-> "null", val |-> 0]
UNDEFINED == [kind |-> "undefined", val |-> 0]

\* a JavaScript boolean
Bool(b) == [kind |-> "boolean", val |-> IF b THEN 1 ELSE 0]

IsNumber(x) == x.kind = "number"

\* x < y of JavaScript: null converts to 0, undefined to NaN (always false)
Lt(x, y) == x.kind # "undefined" /\ y.kind # "undefined" /\ x.val < y.val
\* x <= y of JavaScript
Le(x, y) == x.kind # "undefined" /\ y.kind # "undefined" /\ x.val <= y.val
\* x >= y of JavaScript
Ge(x, y) == Le(y, x)

\* arr[i] of JavaScript: undefined outside the array
At(arr, i) == IF i >= 0 /\ i < Len(arr) THEN arr[i + 1] ELSE UNDEFINED

Vals == (0 - MaxAbs)..MaxAbs
Items == 1..MaxItem

VARIABLES
  heap,       \* MinHeap.heap
  ret,        \* value returned by the last MinHeap call
  op,         \* name of the last MinHeap call
  pre,        \* MinHeap.heap as it was when the last call was made
  inserted,   \* bag of the values passed to insert
  returned,   \* values returned by the extract calls made on a non-empty heap
  shape,      \* "fill": only inserts so far; "drain": inserts then extracts
  items,      \* Queue.items
  qRet, qOp, qPre, qEnq, qDeq,
  nodes,      \* the QueueNode objects allocated so far: id -> [data, next]
  head, tail, size,
  lRet, lOp, lPre, lEnq, lDeq,
  pc,                    \* "idle" between calls, "siftUp" / "shiftDown" inside a loop
  curIdx, parIdx,        \* currentIdx and parentIdx, the locals of insert
  nodeIdx,               \* idxOfNodeToShiftDown, the local of shiftDown
  swaps                  \* swaps made by the call in progress or just returned

heapVars == <<heap, ret, op, pre, inserted, returned, shape>>
queueVars == <<items, qRet, qOp, qPre, qEnq, qDeq>>
llqVars == <<nodes, head, tail, size, lRet, lOp, lPre, lEnq, lDeq>>
stepVars == <<pc, curIdx, parIdx, nodeIdx, swaps>>
vars == <<heapVars, queueVars, llqVars, stepVars>>

\* ================================================================ MinHeap

idxOfLeftChild(i) == i * 2
idxOfRightChild(i) == i * 2 + 1

swap(h, i, j) == [h EXCEPT ![i + 1] = h[j + 1], ![j + 1] = h[i + 1]]

\* a sift-up that takes the parent of i to be floor((i - 1) / 2)
parentOfZeroBased(i) == (i - 1) \div 2

\* parent index used by the sift-up loop of insert
parentOf(i) == i \div 2

\* the while loop of insert
RECURSIVE siftUp(_, _, _)
siftUp(h, currentIdx, parentIdx) ==
  IF Lt(At(h, currentIdx), At(h, parentIdx))
  THEN siftUp(swap(h, currentIdx, parentIdx), parentIdx, parentOf(parentIdx))
  ELSE h

\* the heap after insert(num)
insertHeap(h, num) ==
  LET pushed == Append(h, Num(num))
      currentIdx == Len(pushed) - 1
      parentIdx == parentOf(Len(pushed) - 1)
  IN  siftUp(pushed, currentIdx, parentIdx)

\* the while loop of shiftDown
RECURSIVE shiftDownFrom(_, _)
shiftDownFrom(h, idxOfNodeToShiftDown) ==
  LET left == idxOfLeftChild(idxOfNodeToShiftDown)
      right == idxOfRightChild(idxOfNodeToShiftDown)
      isRightChildInBounds == right < Len(h)
      isRightChildSmaller == isRightChildInBounds /\ Lt(At(h, right), At(h, left))
      idxOfSmallestChild == IF isRightChildSmaller THEN right ELSE left
      isParentSmallerOrEqual == Le(At(h, idxOfNodeToShiftDown), At(h, idxOfSmallestChild))
  IN  IF ~(left < Len(h)) THEN h
      ELSE IF isParentSmallerOrEqual THEN h
      ELSE shiftDownFrom(swap(h, idxOfNodeToShiftDown, idxOfSmallestChild), idxOfSmallestChild)

shiftDown(h) == shiftDownFrom(h, 1)

\* a pop that leaves the array as it is
poppedNothing(h) == h

\* heap.pop(): the array without its last element
popped(h) == SubSeq(h, 1, Len(h) - 1)

\* the heap after extract()
extractHeap(h) ==
  IF Len(h) = 1 THEN h
  ELSE LET lastNode == h[Len(h)]
           rest == popped(h)
       IN  IF Len(rest) = 1 THEN rest
           ELSE shiftDown([rest EXCEPT ![2] = lastNode])

\* an extract without the guard on the empty heap
extractResultNoGuard(h) == At(h, 1)

\* the value extract() returns
extractResult(h) == IF Len(h) = 1 THEN NULL ELSE At(h, 1)

top ==
  /\ ret' = At(heap, 1)
  /\ op' = "top"
  /\ pre' = heap
  /\ UNCHANGED <<heap, inserted, returned, shape>>

insert(num) ==
  /\ BagCardinality(inserted) < MaxInserts
  /\ heap' = insertHeap(heap, num)
  /\ ret' = UNDEFINED
  /\ op' = "insert"
  /\ pre' = heap
  /\ inserted' = inserted (+) SetToBag({Num(num)})
  /\ shape' = IF shape = "fill" THEN "fill" ELSE "mixed"
  /\ UNCHANGED returned

extract ==
  /\ heap' = extractHeap(heap)
  /\ ret' = extractResult(heap)
  /\ op' = "extract"
  /\ pre' = heap
  /\ returned' = IF Len(heap) = 1 THEN returned ELSE Append(returned, extractResult(heap))
  /\ shape' = IF shape \in {"fill", "drain"} /\ Len(heap) > 1 THEN "drain" ELSE "mixed"
  /\ UNCHANGED inserted

\* ================================================================== Queue

\* Queue.size()
queueSize(a) == Len(a)

\* Queue.isEmpty()
queueIsEmpty(a) == Len(a) = 0

\* items.shift() handing back the last item instead of the first
shiftResultLast(a) == At(a, Len(a) - 1)

\* the value items.shift() returns: the first item, undefined if there is none
shiftResult(a) == At(a, 0)

\* the array after items.shift()
shifted(a) == IF a = <<>> THEN a ELSE Tail(a)

qEnqueue(item) ==
  /\ Len(qEnq) < MaxEnqueues
  /\ items' = Append(items, Num(item))
  /\ qRet' = Num(queueSize(items'))
  /\ qOp' = "enqueue"
  /\ qPre' = items
  /\ qEnq' = Append(qEnq, Num(item))
  /\ UNCHANGED qDeq

qDequeue ==
  /\ items' = shifted(items)
  /\ qRet' = shiftResult(items)
  /\ qOp' = "dequeue"
  /\ qPre' = items
  /\ qDeq' = IF queueIsEmpty(items) THEN qDeq ELSE Append(qDeq, shiftResult(items))
  /\ UNCHANGED qEnq

qFront ==
  /\ qRet' = At(items, 0)
  /\ qOp' = "front"
  /\ qPre' = items
  /\ UNCHANGED <<items, qEnq, qDeq>>

qIsEmpty ==
  /\ qRet' = Bool(queueIsEmpty(items))
  /\ qOp' = "isEmpty"
  /\ qPre' = items
  /\ UNCHANGED <<items, qEnq, qDeq>>

\* ======================================================== LinkedListQueue

\* the null reference of head, tail and next; node ids start at 1
NoNode == 0

\* new QueueNode(data)
QueueNode(data) == [data |-> data, next |-> NoNode]

\* the fields of the LinkedListQueue, with the nodes they refer to
LLQ == [nodes |-> nodes, head |-> head, tail |-> tail, size |-> size]

\* LinkedListQueue.isEmpty()
llqIsEmpty(q) == q.head = NoNode

\* an enqueue that returns the size with a post-increment
llqEnqueueResultOld(q) == q.size

\* the value enqueue returns: ++this.size
llqEnqueueResult(q) == q.size + 1

\* the queue after enqueue(val)
llqEnqueue(q, val) ==
  LET newTail == Len(q.nodes) + 1
      alloc == Append(q.nodes, QueueNode(val))
  IN  IF llqIsEmpty(q)
      THEN [nodes |-> alloc, head |-> newTail, tail |-> newTail, size |-> q.size + 1]
      ELSE [nodes |-> [alloc EXCEPT ![q.tail].next = newTail],
            head |-> q.head, tail |-> newTail, size |-> q.size + 1]

\* a dequeue that decrements the size before looking at head
llqDequeueNoGuard(q) ==
  IF q.head = NoNode THEN [q EXCEPT !.size = q.size - 1]
  ELSE LET newHead == q.nodes[q.head].next
       IN  [nodes |-> q.nodes, head |-> newHead,
            tail |-> IF newHead = NoNode THEN NoNode ELSE q.tail,
            size |-> q.size - 1]

\* a dequeue that leaves tail alone when the last node is removed
llqDequeueKeepTail(q) ==
  IF q.head = NoNode THEN q
  ELSE [nodes |-> q.nodes, head |-> q.nodes[q.head].next,
        tail |-> q.tail, size |-> q.size - 1]

\* the queue after dequeue()
llqDequeue(q) ==
  IF q.head = NoNode THEN q
  ELSE LET newHead == q.nodes[q.head].next
       IN  [nodes |-> q.nodes, head |-> newHead,
            tail |-> IF newHead = NoNode THEN NoNode ELSE q.tail,
            size |-> q.size - 1]

\* the value dequeue() returns
llqDequeueResult(q) == IF q.head = NoNode THEN NULL ELSE q.nodes[q.head].data

\* a front that reads the newest node
llqFrontTail(q) == IF q.head # NoNode THEN q.nodes[q.tail].data ELSE NULL

\* the value front() returns
llqFront(q) == IF q.head # NoNode THEN q.nodes[q.head].data ELSE NULL

lEnqueue(val) ==
  /\ Len(lEnq) < MaxEnqueues
  /\ LET q == llqEnqueue(LLQ, Num(val))
     IN  nodes' = q.nodes /\ head' = q.head /\ tail' = q.tail /\ size' = q.size
  /\ lRet' = Num(llqEnqueueResult(LLQ))
  /\ lOp' = "enqueue"
  /\ lPre' = LLQ
  /\ lEnq' = Append(lEnq, Num(val))
  /\ UNCHANGED lDeq

lDequeue ==
  /\ LET q == llqDequeue(LLQ)
     IN  nodes' = q.nodes /\ head' = q.head /\ tail' = q.tail /\ size' = q.size
  /\ lRet' = llqDequeueResult(LLQ)
  /\ lOp' = "dequeue"
  /\ lPre' = LLQ
  /\ lDeq' = IF llqIsEmpty(LLQ) THEN lDeq ELSE Append(lDeq, llqDequeueResult(LLQ))
  /\ UNCHANGED lEnq

lFront ==
  /\ lRet' = llqFront(LLQ)
  /\ lOp' = "front"
  /\ lPre' = LLQ
  /\ UNCHANGED <<nodes, head, tail, size, lEnq, lDeq>>

\* ==================================== MinHeap of src/MinHeap/index.js

\* parent index computed inside the sift-up loop of index.js
indexParentOf(i) == (i - 1) \div 2

\* the while loop of insert in index.js
RECURSIVE indexSiftUp(_, _, _)
indexSiftUp(h, currentIdx, parentIdx) ==
  IF Lt(At(h, currentIdx), At(h, parentIdx))
  THEN indexSiftUp(swap(h, currentIdx, parentIdx), parentIdx, indexParentOf(parentIdx))
  ELSE h

\* the heap after insert(num) of index.js
indexInsertHeap(h, num) ==
  LET pushed == Append(h, Num(num))
      currentIdx == Len(pushed) - 1
      parentIdx == (Len(pushed) - 1) \div 2
  IN  indexSiftUp(pushed, currentIdx, parentIdx)

indexInsert(num) ==
  /\ BagCardinality(inserted) < MaxInserts
  /\ heap' = indexInsertHeap(heap, num)
  /\ ret' = UNDEFINED
  /\ op' = "insert"
  /\ pre' = heap
  /\ inserted' = inserted (+) SetToBag({Num(num)})
  /\ UNCHANGED <<returned, shape>>

\* top() of index.js
indexTop ==
  /\ ret' = At(heap, 1)
  /\ op' = "top"
  /\ pre' = heap
  /\ UNCHANGED <<heap, inserted, returned, shape>>

\* extract() of index.js: an empty body
indexExtract ==
  /\ ret' = UNDEFINED
  /\ op' = "extract"
  /\ pre' = heap
  /\ UNCHANGED <<heap, inserted, returned, shape>>

\* ============================== MinHeap, one loop iteration per step

\* the swap counter after one more swap; it stops counting at heap.length,
\* more swaps than a call can make that moves one value along one path
countSwap(n, h) == IF n < Len(h) THEN n + 1 ELSE n

\* a loop test written with <= instead of <
siftUpTestOrEqual(h, cur, par) == Le(At(h, cur), At(h, par))

\* the test of the while loop of insert
siftUpTest(h, cur, par) == Lt(At(h, cur), At(h, par))

\* a shiftDown that always takes the left child
idxOfSmallestChildLeft(h, p) == idxOfLeftChild(p)

\* the child shiftDown picks for the node at p (p has a left child)
idxOfSmallestChild(h, p) ==
  LET isRightChildInBounds == idxOfRightChild(p) < Len(h)
      isRightChildSmaller ==
        isRightChildInBounds /\ Lt(At(h, idxOfRightChild(p)), At(h, idxOfLeftChild(p)))
  IN  IF isRightChildSmaller THEN idxOfRightChild(p) ELSE idxOfLeftChild(p)

\* the test before the break of shiftDown
isParentSmallerOrEqual(h, p) == Le(At(h, p), At(h, idxOfSmallestChild(h, p)))

\* insert(num) up to the first test of its loop
stepInsert(num) ==
  /\ pc = "idle"
  /\ BagCardinality(inserted) < MaxInserts
  /\ heap' = Append(heap, Num(num))
  /\ curIdx' = Len(heap') - 1
  /\ parIdx' = parentOf(Len(heap') - 1)
  /\ pc' = "siftUp"
  /\ swaps' = 0
  /\ ret' = UNDEFINED
  /\ op' = "insert"
  /\ pre' = heap
  /\ inserted' = inserted (+) SetToBag({Num(num)})
  /\ shape' = IF shape = "fill" THEN "fill" ELSE "mixed"
  /\ UNCHANGED <<returned, nodeIdx>>

\* one test of the while loop of insert, with its body when the test holds
stepSiftUp ==
  /\ pc = "siftUp"
  /\ IF siftUpTest(heap, curIdx, parIdx)
     THEN /\ heap' = swap(heap, curIdx, parIdx)
          /\ curIdx' = parIdx
          /\ parIdx' = parentOf(parIdx)
          /\ swaps' = countSwap(swaps, heap)
          /\ pc' = "siftUp"
     ELSE /\ pc' = "idle"
          /\ UNCHANGED <<heap, curIdx, parIdx, swaps>>
  /\ UNCHANGED <<ret, op, pre, inserted, returned, shape, nodeIdx>>

\* extract() up to the first test of the loop of shiftDown; ret holds min
stepExtract ==
  /\ pc = "idle"
  /\ swaps' = 0
  /\ op' = "extract"
  /\ pre' = heap
  /\ ret' = extractResult(heap)
  /\ returned' = IF Len(heap) = 1 THEN returned ELSE Append(returned, extractResult(heap))
  /\ shape' = IF shape \in {"fill", "drain"} /\ Len(heap) > 1 THEN "drain" ELSE "mixed"
  /\ IF Len(heap) = 1
     THEN UNCHANGED <<heap, pc, nodeIdx>>
     ELSE IF Len(popped(heap)) = 1
     THEN heap' = popped(heap) /\ UNCHANGED <<pc, nodeIdx>>
     ELSE /\ heap' = [popped(heap) EXCEPT ![2] = heap[Len(heap)]]
          /\ nodeIdx' = 1
          /\ pc' = "shiftDown"
  /\ UNCHANGED <<inserted, curIdx, parIdx>>

\* one test of the while loop of shiftDown, with its body when the test holds
stepShiftDown ==
  /\ pc = "shiftDown"
  /\ IF ~(idxOfLeftChild(nodeIdx) < Len(heap))
     THEN pc' = "idle" /\ UNCHANGED <<heap, nodeIdx, swaps>>
     ELSE IF isParentSmallerOrEqual(heap, nodeIdx)
     THEN pc' = "idle" /\ UNCHANGED <<heap, nodeIdx, swaps>>
     ELSE /\ heap' = swap(heap, nodeIdx,
                          idxOfSmallestChild(heap, nodeIdx))
          /\ nodeIdx' = idxOfSmallestChild(heap, nodeIdx)
          /\ swaps' = countSwap(swaps, heap)
          /\ pc' = "shiftDown"
  /\ UNCHANGED <<ret, op, pre, inserted, returned, shape, curIdx, parIdx>>

stepTop ==
  /\ pc = "idle"
  /\ top
  /\ swaps' = 0
  /\ UNCHANGED <<pc, curIdx, parIdx, nodeIdx>>
lIsEmpty ==
  /\ lRet' = Bool(llqIsEmpty(LLQ))
  /\ lOp' = "isEmpty"
  /\ lPre' = LLQ
  /\ UNCHANGED <<nodes, head, tail, size, lEnq, lDeq>>

HeapInit ==
  /\ heap = <<NULL>>
  /\ ret = UNDEFINED
  /\ op = "new"
  /\ pre = <<NULL>>
  /\ inserted = EmptyBag
  /\ returned = <<>>
  /\ shape = "fill"

QueueInit ==
  /\ items = <<>>
  /\ qRet = UNDEFINED /\ qOp = "new" /\ qPre = <<>> /\ qEnq = <<>> /\ qDeq = <<>>

LLQInit ==
  /\ nodes = <<>>
  /\ head = NoNode /\ tail = NoNode /\ size = 0
  /\ lRet = UNDEFINED /\ lOp = "new"
  /\ lPre = [nodes |-> <<>>, head |-> NoNode, tail |-> NoNode, size |-> 0]
  /\ lEnq = <<>> /\ lDeq = <<>>

\* no call in progress; the loop locals do not exist yet
StepInit ==
  /\ pc = "idle"
  /\ curIdx = 0 /\ parIdx = 0 /\ nodeIdx = 0
  /\ swaps = 0

Init == HeapInit /\ QueueInit /\ LLQInit /\ StepInit

Next ==
  \/ (\E num \in Vals : insert(num)) /\ UNCHANGED <<queueVars, llqVars, stepVars>>
  \/ extract /\ UNCHANGED <<queueVars, llqVars, stepVars>>
  \/ top /\ UNCHANGED <<queueVars, llqVars, stepVars>>

Spec == Init /\ [][Next]_vars

\* the MinHeap of src/MinHeap/index.js
IndexNext ==
  \/ (\E num \in Vals : indexInsert(num)) /\ UNCHANGED <<queueVars, llqVars, stepVars>>
  \/ indexExtract /\ UNCHANGED <<queueVars, llqVars, stepVars>>
  \/ indexTop /\ UNCHANGED <<queueVars, llqVars, stepVars>>

IndexSpec == Init /\ [][IndexNext]_vars

\* the MinHeap of part_000 with its loops taken one iteration at a time
StepNext ==
  \/ (\E num \in Vals : stepInsert(num)) /\ UNCHANGED <<queueVars, llqVars>>
  \/ stepSiftUp /\ UNCHANGED <<queueVars, llqVars>>
  \/ stepExtract /\ UNCHANGED <<queueVars, llqVars>>
  \/ stepShiftDown /\ UNCHANGED <<queueVars, llqVars>>
  \/ stepTop /\ UNCHANGED <<queueVars, llqVars>>

\* a call runs to completion: a loop that can take an iteration takes it
StepFairness ==
  /\ WF_vars(stepSiftUp /\ UNCHANGED <<queueVars, llqVars>>)
  /\ WF_vars(stepShiftDown /\ UNCHANGED <<queueVars, llqVars>>)

StepSpec == Init /\ [][StepNext]_vars /\ StepFairness

\* the two queues, given the same call one call at a time; they share no
\* state, so each queue still goes through every sequence of calls
QueueNext ==
  \/ (\E item \in Items : qEnqueue(item) /\ lEnqueue(item)) /\ UNCHANGED <<heapVars, stepVars>>
  \/ (qDequeue /\ lDequeue) /\ UNCHANGED <<heapVars, stepVars>>
  \/ (qFront /\ lFront) /\ UNCHANGED <<heapVars, stepVars>>
  \/ (qIsEmpty /\ lIsEmpty) /\ UNCHANGED <<heapVars, stepVars>>

QueueSpec == Init /\ [][QueueNext]_vars

\* ------------------------------------------------------------ derived state
RECURSIVE SeqToBag(_)
SeqToBag(s) == IF s = <<>> THEN EmptyBag ELSE SetToBag({Head(s)}) (+) SeqToBag(Tail(s))

\* the values inserted and not yet returned by extract
pending == inserted (-) SeqToBag(returned)

HeapSize == Len(heap) - 1

\* least element of a non-empty bag of values
MinOf(b) == CHOOSE x \in BagToSet(b) : \A y \in BagToSet(b) : Le(x, y)

Sorted(s) == \A i \in 1..(Len(s) - 1) : Le(s[i], s[i + 1])

\* ================================================================= claims

\* C1: at the return of every insert and extract call, every index i with
\* 2 <= i <= heap.length - 1 satisfies heap[i] >= heap[floor(i / 2)].
C1_HeapOrder ==
  \A i \in 2..(Len(heap) - 1) : Ge(At(heap, i), At(heap, i \div 2))

\* a heap of three or more values, holding a negative and a positive one,
\* reached by an extract that had to reorder
C1_Witness ==
  /\ op = "extract"
  /\ Len(heap) >= 4
  /\ \E i \in 1..(Len(heap) - 1) : At(heap, i).val < 0
  /\ \E i \in 1..(Len(heap) - 1) : At(heap, i).val > 0
  /\ popped(pre) # heap

\* C2: inserting n values into a new heap and then extracting n times
\* returns exactly those n values, as a multiset, in non-decreasing order.
C2_SortedDrain ==
  (shape = "drain" /\ Len(returned) = BagCardinality(inserted))
    => (SeqToBag(returned) = inserted /\ Sorted(returned))

\* C3: top() returns the minimum of the values inserted and not yet returned
\* by extract, and a non-numeric value exactly when there is none.
C3_TopIsMin ==
  op = "top" =>
    IF BagToSet(pending) # {} THEN ret = MinOf(pending) ELSE ~IsNumber(ret)

\* C4: the heap size (heap.length - 1) equals the number of insert calls
\* minus the number of extract calls made on a non-empty heap.
C4_Size ==
  HeapSize = BagCardinality(inserted) - Len(returned)

\* inserts and extracts interleaved, the heap still holding values
C4_Witness ==
  /\ shape = "mixed"
  /\ Len(returned) >= 2
  /\ HeapSize >= 2

\* C5: extract() on an empty heap (backing store of length 1) returns null
\* and leaves the backing store unchanged.
C5_EmptyExtract ==
  (op = "extract" /\ Len(pre) = 1) => (ret = NULL /\ heap = pre)

\* an extract made on a heap that earlier extracts have emptied
C5_Witness ==
  /\ op = "extract"
  /\ Len(pre) = 1
  /\ Len(returned) >= 1
  /\ ret = NULL

\* C6: on a new heap, insert(v) then top() returns v, then extract() returns
\* v and leaves the heap empty, then top() signals absence.
C6_SingleElement ==
  /\ (BagCardinality(inserted) = 1 /\ returned = <<>> /\ op = "top")
       => SetToBag({ret}) = inserted
  /\ (BagCardinality(inserted) = 1 /\ Len(returned) = 1)
       => (SeqToBag(returned) = inserted /\ Len(heap) = 1)
  /\ (BagCardinality(inserted) = 1 /\ Len(returned) = 1 /\ op = "top")
       => ~IsNumber(ret)

\* C7: index 0 of the backing store always holds the null placeholder
\* written by the constructor.
C7_SentinelKept ==
  At(heap, 0) = NULL

IsPrefix(s, t) == Len(s) <= Len(t) /\ SubSeq(t, 1, Len(s)) = s

\* C8: for both queues, the items returned by dequeue calls made on a
\* non-empty queue are a prefix of the items passed to enqueue, in the same
\* order, and front() returns the oldest item enqueued and not yet dequeued.
C8_Fifo ==
  /\ IsPrefix(qDeq, qEnq)
  /\ (qOp = "front" /\ Len(qDeq) < Len(qEnq)) => qRet = qEnq[Len(qDeq) + 1]
  /\ IsPrefix(lDeq, lEnq)
  /\ (lOp = "front" /\ Len(lDeq) < Len(lEnq)) => lRet = lEnq[Len(lDeq) + 1]

\* both queues have handed back two different items and front() is asked
\* for a later one
C8_Witness ==
  /\ Len(qDeq) >= 2 /\ qDeq[1] # qDeq[2]
  /\ qOp = "front" /\ Len(qDeq) < Len(qEnq)
  /\ Len(lDeq) >= 2 /\ lDeq[1] # lDeq[2]
  /\ lOp = "front" /\ Len(lDeq) < Len(lEnq)

\* C9: dequeue() on an empty queue returns undefined (Queue) or null
\* (LinkedListQueue) and leaves every field unchanged: items stays empty,
\* head and tail stay null and size stays 0.
C9_EmptyDequeue ==
  /\ (qOp = "dequeue" /\ queueIsEmpty(qPre))
       => (qRet = UNDEFINED /\ items = <<>>)
  /\ (lOp = "dequeue" /\ llqIsEmpty(lPre))
       => (lRet = NULL /\ LLQ = lPre /\ head = NoNode /\ tail = NoNode /\ size = 0)

\* both queues were filled, emptied, and then asked to dequeue once more
C9_Witness ==
  /\ qOp = "dequeue" /\ queueIsEmpty(qPre) /\ Len(qDeq) >= 1
  /\ lOp = "dequeue" /\ llqIsEmpty(lPre) /\ Len(lDeq) >= 1

\* C10: enqueue(item) returns the number of items enqueued so far minus the
\* number of dequeue calls that returned an item.
C10_EnqueueReturnsSize ==
  /\ qOp = "enqueue" => qRet = Num(Len(qEnq) - Len(qDeq))
  /\ lOp = "enqueue" => lRet = Num(Len(lEnq) - Len(lDeq))

\* an enqueue made on each queue after a dequeue had returned an item
C10_Witness ==
  /\ qOp = "enqueue" /\ Len(qDeq) >= 1 /\ Len(qEnq) - Len(qDeq) >= 1
  /\ lOp = "enqueue" /\ Len(lDeq) >= 1 /\ Len(lEnq) - Len(lDeq) >= 1

\* C11: top() returns null when the heap is empty, on a new heap and on a
\* heap emptied by extract calls.
C11_TopNullWhenEmpty ==
  (op = "top" /\ Len(pre) = 1) => ret = NULL

\* C12: for the MinHeap of src/MinHeap/index.js, after any sequence of
\* insert calls on a new heap every index i with 2 <= i <= heap.length - 1
\* satisfies heap[i] >= heap[floor(i / 2)].
C12_IndexInsertOrder ==
  op = "insert" =>
    \A i \in 2..(Len(heap) - 1) : Ge(At(heap, i), At(heap, i \div 2))

\* C13: every insert and extract call terminates: whenever a call is inside
\* its sift-up or sift-down loop, the loop is eventually left.
C13_Terminates ==
  (pc # "idle") ~> (pc = "idle")

\* an extract has returned from a shiftDown that swapped and tested again,
\* on a heap filled by inserts whose sift-up loops ran
C13_Witness ==
  /\ pc = "idle"
  /\ op = "extract"
  /\ swaps >= 1
  /\ Len(heap) >= 4

\* C14: in an iteration of shiftDown on a node at p that has a child, the
\* node is swapped only if it is strictly greater than the chosen child; the
\* chosen child is the right one only when it is in bounds and strictly
\* smaller than the left one, otherwise the left one; after a swap the value
\* at p is <= both in-bounds children; the loop stops when the node is <= the
\* chosen child or has no child.
C14_ShiftDownIteration ==
  [][ pc = "shiftDown" =>
        LET p == nodeIdx
            l == p * 2
            r == p * 2 + 1
            rightWins == r < Len(heap) /\ Lt(At(heap, r), At(heap, l))
        IN  IF ~(l < Len(heap))
            THEN pc' = "idle" /\ heap' = heap
            ELSE IF heap' # heap
            THEN /\ nodeIdx' = IF rightWins THEN r ELSE l
                 /\ Lt(At(heap, nodeIdx'), At(heap, p))
                 /\ heap' = swap(heap, p, nodeIdx')
                 /\ Le(At(heap', p), At(heap', l))
                 /\ (r < Len(heap) => Le(At(heap', p), At(heap', r)))
                 /\ pc' = "shiftDown"
            ELSE /\ Le(At(heap, p), At(heap, IF rightWins THEN r ELSE l))
                 /\ pc' = "idle"
    ]_vars

\* shiftDown has just swapped the root with its right child, which was
\* strictly smaller than the left one, and is about to test the node again
C14_Witness ==
  /\ pc = "shiftDown"
  /\ swaps = 1
  /\ nodeIdx = 3
  /\ Lt(At(heap, 1), At(heap, 2))

RECURSIVE Log2Floor(_)
Log2Floor(n) == IF n <= 1 THEN 0 ELSE 1 + Log2Floor(n \div 2)

\* C15: an insert that brings the heap to size n makes at most floor(log2(n))
\* swaps, and an extract from a heap of size n makes at most floor(log2(n))
\* swaps.
C15_SwapBound ==
  pc = "idle" =>
    /\ op = "insert" => swaps <= Log2Floor(Len(heap) - 1)
    /\ (op = "extract" /\ Len(pre) > 1) => swaps <= Log2Floor(Len(pre) - 1)

\* C16: the multiset of values in slots 1..heap.length-1 equals the multiset
\* of inserted values minus the values returned by extract calls made on a
\* non-empty heap, and every value so returned is a number that was inserted
\* and not yet returned.
C16_Conservation ==
  /\ SeqToBag(SubSeq(heap, 2, Len(heap))) = pending
  /\ \A i \in 1..Len(returned) : IsNumber(returned[i])
  /\ SeqToBag(returned) \sqsubseteq inserted

\* the nodes reached from node id by following next
RECURSIVE ChainFrom(_, _)
ChainFrom(ns, id) == IF id = NoNode THEN <<>> ELSE <<id>> \o ChainFrom(ns, ns[id].next)

\* C17: for LinkedListQueue, head is null iff tail is null iff size is 0;
\* size is the number of nodes reachable from head; when non-empty, tail is
\* the last node of that chain and tail.next is null.
C17_LinkedListShape ==
  /\ (head = NoNode) <=> (tail = NoNode)
  /\ (tail = NoNode) <=> (size = 0)
  /\ size = Len(ChainFrom(nodes, head))
  /\ head # NoNode =>
       /\ ChainFrom(nodes, head)[size] = tail
       /\ nodes[tail].next = NoNode

\* a queue of two or more nodes whose first node has already been dequeued
C17_Witness ==
  /\ size >= 2
  /\ Len(lDeq) >= 1
  /\ head # tail

\* the same result, null and undefined taken as one absence value
SameResult(x, y) ==
  \/ x = y
  \/ x \in {NULL, UNDEFINED} /\ y \in {NULL, UNDEFINED}

\* C18: when the same sequence of enqueue, dequeue, front and isEmpty calls
\* is applied to a new Queue and a new LinkedListQueue, every call returns
\* the same result in both and Queue.size() equals the size field.
C18_QueuesEquivalent ==
  /\ qOp = lOp
  /\ SameResult(qRet, lRet)
  /\ queueSize(items) = size

\* both queues answer front() with the second item after the first one,
\* a different item, was dequeued
C18_Witness ==
  /\ qOp = "front" /\ lOp = "front"
  /\ Len(qDeq) = 1 /\ Len(qEnq) = 3
  /\ qRet = qEnq[2] /\ lRet = lEnq[2] /\ qEnq[2] # qEnq[1] /\ qEnq[3] # qEnq[2]

\* the indices n, floor(n / 2), floor(n / 4), ..., 1
RECURSIVE AncestorPath(_)
AncestorPath(n) == IF n < 1 THEN {} ELSE {n} \cup AncestorPath(n \div 2)

\* C19: insert(v) appends one slot at index n = new heap.length - 1 and
\* otherwise changes only slots at indices >= 1 on the ancestor path of n;
\* top() changes no slot.
C19_Frame ==
  /\ op = "insert" =>
       /\ Len(heap) = Len(pre) + 1
       /\ \A i \in 0..(Len(pre) - 1) :
            i \notin AncestorPath(Len(pre)) => At(heap, i) = At(pre, i)
  /\ op = "top" => heap = pre

====
